---------------------------- MODULE Spec2Model ----------------------------
(***************************************************************************)
(* Gromov-Wasserstein barycenter: the problem container                    *)
(* (ott/core/bar_problems.py, ott/core/gw_barycenter/problem.py) and the   *)
(* solver / iteration driver (ott/core/gw_barycenter.py,                   *)
(* ott/core/gw_barycenter/solver.py).                                      *)
(*                                                                         *)
(* Arrays are modelled by their shape (a tuple of dimensions); the absent  *)
(* value None is the empty tuple.  Numbers that the claims compare         *)
(* (mixing weights, barycenter weights, multipliers) are exact rationals   *)
(* <<numerator, denominator>>; a zero denominator is a non-finite float.   *)
(* A call either returns a value or raises: every result record carries    *)
(* exc, the name of the exception raised, or "none".                       *)
(***************************************************************************)
EXTENDS Integers, Sequences, FiniteSets, TLC

\* ------------------------------------------------------------- bounds
MaxMeasures == 2
MaxBarSize == 2
MaxIter == 2
MaxCost == 1

\* ------------------------------------------------------------- values
None == <<>>
NoExc == "none"

IsNone(arr) == arr = None
ndim(arr) == Len(arr)

RECURSIVE SeqSum(_)
SeqSum(s) == IF s = <<>> THEN 0 ELSE Head(s) + SeqSum(Tail(s))

SeqMax(s) == IF s = <<>> THEN -1
             ELSE CHOOSE m \in {s[i] : i \in DOMAIN s} :
                    \A i \in DOMAIN s : s[i] <= m

\* Sequences over S of length lo..hi.
SeqsOf(S, lo, hi) == UNION {[1..n -> S] : n \in lo..hi}

RatAdd(p, q) == <<p[1] * q[2] + q[1] * p[2], p[2] * q[2]>>

RECURSIVE RatSum(_)
RatSum(s) == IF s = <<>> THEN <<0, 1>> ELSE RatAdd(Head(s), RatSum(Tail(s)))

\* Every entry finite and the entries add up to exactly 1.
SumsToOne(s) == /\ \A i \in DOMAIN s : s[i][2] # 0
                /\ RatSum(s)[1] = RatSum(s)[2]

\* --------------------------------------------------- problem container
\* BarycenterProblem.__init__ / GWBarycenterProblem.__init__: the fields a
\* constructed problem holds.  cls names the class that built it: "bar" is
\* bar_problems.GWBarycenterProblem, "pkg" is gw_barycenter/problem.py's.
\* weights is [given, v]: given = FALSE is weights = None.
\* segment_ids/num_segments describe a flat y (ndim 2); num_segments = -1
\* stands for None.  The remaining keyword arguments are at their defaults:
\* indices_are_sorted, num_per_segment, max_measure_size (-1) and scale_cost
\* are None, fused_penalty is 1.0.
Problem(cls, y, b, w, debiased, seg, nseg, y_fused, loss, is_cost) ==
  [cls |-> cls, y |-> y, b |-> b, weights |-> w, debiased |-> debiased,
   segment_ids |-> seg, num_segments |-> nseg,
   y_fused |-> y_fused, loss_name |-> loss, is_cost |-> is_cost,
   indices_are_sorted |-> "None", num_per_segment |-> None,
   max_measure_size |-> -1, fused_penalty |-> 1, scale_cost |-> "None"]

\* The attributes each class's __init__ assigns on the instance.
ClassAttrs(cls) ==
  LET base == {"_y", "_b", "_weights", "cost_fn", "epsilon", "debiased",
               "_segment_ids", "_num_segments", "_indices_are_sorted",
               "_num_per_segment", "_max_measure_size"}
      gw == {"_y_fused", "fused_penalty", "loss", "_loss_name", "scale_cost"}
  IN base \cup gw \cup (IF cls = "bar" THEN {"_is_cost"} ELSE {"is_cost"})

HasAttr(p, name) == name \in ClassAttrs(p.cls)

Ok(v) == [exc |-> NoExc, val |-> v]
Raise(e, v) == [exc |-> e, val |-> v]

\* segment.segment_point_cloud, the segmentation collaborator: the number
\* of segments it reports and the padded arrays it hands back.
segment_num_segments(p) ==
  IF p.num_segments # -1 THEN p.num_segments ELSE SeqMax(p.segment_ids) + 1

SegCount(p, s) == Cardinality({i \in DOMAIN p.segment_ids : p.segment_ids[i] = s})

\* BarycenterProblem.max_measure_size, mutated: the counts are taken over
\* the first id only.
max_measure_size_first(p) ==
  IF p.max_measure_size # -1 THEN p.max_measure_size
  ELSE IF ~IsNone(p.y) /\ ndim(p.y) = 3 THEN p.y[2]
  ELSE IF IsNone(p.num_per_segment) THEN SegCount(p, 0)
  ELSE SeqMax(p.num_per_segment)

\* BarycenterProblem.max_measure_size: the explicit value if one was
\* passed; the second axis of a padded y; else the largest of
\* segment_sum(ones, segment_ids, num_segments), the number of points per
\* id 0..num_segments-1, or of the num_per_segment passed.
max_measure_size(p) ==
  IF p.max_measure_size # -1 THEN p.max_measure_size
  ELSE IF ~IsNone(p.y) /\ ndim(p.y) = 3 THEN p.y[2]
  ELSE IF IsNone(p.num_per_segment)
       THEN SeqMax([s \in 1..segment_num_segments(p) |-> SegCount(p, s - 1)])
       ELSE SeqMax(p.num_per_segment)

segment_point_cloud(p, x, a) ==
  [y |-> <<segment_num_segments(p), max_measure_size(p), x[2]>>,
   b |-> IF IsNone(a) THEN None
         ELSE <<segment_num_segments(p), max_measure_size(p)>>,
   n |-> segment_num_segments(p)]

\* BarycenterProblem.num_segments, mutated: the missing support is not
\* looked for, so its rank is read from None.
num_segments_unguarded(p) ==
  IF IsNone(p.y) THEN Raise("AttributeError", 0)
  ELSE IF ndim(p.y) = 3
       THEN IF ~IsNone(p.b) /\ p.y[1] # p.b[1]
            THEN Raise("AssertionError", 0)
            ELSE Ok(p.y[1])
       ELSE Ok(segment_point_cloud(p, p.y, p.b).n)

\* BarycenterProblem.num_segments
num_segments(p) ==
  IF IsNone(p.y) THEN Ok(0)
  ELSE IF ndim(p.y) = 3
       THEN IF ~IsNone(p.b) /\ p.y[1] # p.b[1]
            THEN Raise("AssertionError", 0)
            ELSE Ok(p.y[1])
       ELSE Ok(segment_point_cloud(p, p.y, p.b).n)

\* BarycenterProblem.weights, mutated: the length check is dropped.
weights_nocheck(p) ==
  LET ns == num_segments(p)
      n == ns.val
      w == p.weights.v
      base == IF ~p.weights.given
              THEN [i \in 1..n |-> <<1, n>>]
              ELSE [i \in 1..Len(w) |-> <<w[i], SeqSum(w)>>]
  IN IF ns.exc # NoExc THEN Raise(ns.exc, <<>>)
     ELSE Ok(IF p.debiased THEN Append(base, <<-1, 2>>) ELSE base)

\* BarycenterProblem.weights, mutated: the explicit weights are returned
\* as given, not divided by their sum.
weights_unnormalised(p) ==
  LET ns == num_segments(p)
      n == ns.val
      w == p.weights.v
      base == IF ~p.weights.given
              THEN [i \in 1..n |-> <<1, n>>]
              ELSE [i \in 1..Len(w) |-> <<w[i], 1>>]
  IN IF ns.exc # NoExc THEN Raise(ns.exc, <<>>)
     ELSE IF p.weights.given /\ Len(w) # n THEN Raise("AssertionError", <<>>)
     ELSE Ok(IF p.debiased THEN Append(base, <<-1, 2>>) ELSE base)

\* BarycenterProblem.weights
weights(p) ==
  LET ns == num_segments(p)
      n == ns.val
      w == p.weights.v
      base == IF ~p.weights.given
              THEN [i \in 1..n |-> <<1, n>>]
              ELSE [i \in 1..Len(w) |-> <<w[i], SeqSum(w)>>]
  IN IF ns.exc # NoExc THEN Raise(ns.exc, <<>>)
     ELSE IF p.weights.given /\ Len(w) # n THEN Raise("AssertionError", <<>>)
     ELSE Ok(IF p.debiased THEN Append(base, <<-1, 2>>) ELSE base)

YB(exc, y, b) == [exc |-> exc, y |-> y, b |-> b]

\* BarycenterProblem.add_slice_for_debiased
add_slice_for_debiased(p, y, b) ==
  IF IsNone(y) \/ IsNone(b) THEN YB(NoExc, y, b)
  ELSE IF p.debiased
       THEN YB(NoExc, <<y[1] + 1, y[2], y[3]>>, <<b[1] + 1, y[2]>>)
       ELSE YB(NoExc, y, b)

\* BarycenterProblem.segmented_y_b.  The condition is evaluated left to
\* right: with a 3-D y, self._b.ndim is read, which None does not have.
segmented_y_b(p) ==
  IF IsNone(p.y) THEN add_slice_for_debiased(p, p.y, p.b)
  ELSE IF ndim(p.y) = 3
       THEN IF IsNone(p.b) THEN YB("AttributeError:ndim", None, None)
            ELSE IF ndim(p.b) = 2 THEN add_slice_for_debiased(p, p.y, p.b)
            ELSE YB("ValueError", None, None)
       ELSE LET s == segment_point_cloud(p, p.y, p.b)
            IN add_slice_for_debiased(p, s.y, s.b)

\* GWBarycenterProblem.is_fused
is_fused(p) == ~IsNone(p.y_fused)

\* GWBarycenterProblem.segmented_y_fused
segmented_y_fused(p) ==
  IF IsNone(p.y_fused) \/ ndim(p.y_fused) = 3 THEN p.y_fused
  ELSE segment_point_cloud(p, p.y_fused, None).y

\* divide_a, mutated: 1.0 / a without the guard for a zero weight.
divide_a_unguarded(a) == [j \in DOMAIN a |-> <<a[j][2], a[j][1]>>]

\* jnp.where(a > 0, 1.0 / a, 1.0): the multiplier of each barycenter weight.
divide_a(a) == [j \in DOMAIN a |-> IF a[j][1] > 0 THEN <<a[j][2], a[j][1]>>
                                   ELSE <<1, 1>>]

\* NumPy broadcasting of the leading axes of weights[:, None, None] and of
\* the per-measure projections.
Broadcasts(l, n) == l = n \/ l = 1 \/ n = 1

Feat(exc, present, shape, mult) ==
  [exc |-> exc, present |-> present, shape |-> shape, mult |-> mult]

\* update_features of bar_problems.py, mutated: the loss is never looked
\* at, so the Euclidean rule is applied under any loss.
update_features_bar_anyloss(p, a) ==
  IF ~is_fused(p) THEN Feat(NoExc, FALSE, None, <<>>)
  ELSE LET y_fused == segmented_y_fused(p)
           w == weights(p)
       IN IF w.exc # NoExc THEN Feat(w.exc, FALSE, None, <<>>)
          ELSE IF Broadcasts(Len(w.val), y_fused[1])
               THEN Feat(NoExc, TRUE, <<Len(a), y_fused[3]>>, divide_a(a))
               ELSE Feat("ValueError", FALSE, None, <<>>)

\* GWBarycenterProblem.update_features of bar_problems.py.  The multipliers
\* are computed before the loss is looked at; they reach the caller only
\* inside the returned array.
update_features_bar(p, a) ==
  IF ~is_fused(p) THEN Feat(NoExc, FALSE, None, <<>>)
  ELSE LET y_fused == segmented_y_fused(p)
           w == weights(p)
       IN IF w.exc # NoExc THEN Feat(w.exc, FALSE, None, <<>>)
          ELSE IF p.loss_name = "sqeucl"
               THEN IF Broadcasts(Len(w.val), y_fused[1])
                    THEN Feat(NoExc, TRUE, <<Len(a), y_fused[3]>>, divide_a(a))
                    ELSE Feat("ValueError", FALSE, None, <<>>)
               ELSE Feat("NotImplementedError", FALSE, None, <<>>)

\* GWBarycenterProblem.update_features of gw_barycenter/problem.py.
update_features_pkg(p, a) ==
  IF ~is_fused(p) THEN Feat(NoExc, FALSE, None, <<>>)
  ELSE LET y_fused == segmented_y_fused(p)
           w == weights(p)
       IN IF w.exc # NoExc THEN Feat(w.exc, FALSE, None, <<>>)
          ELSE IF p.loss_name = "sqeucl"
               THEN IF Broadcasts(Len(w.val), y_fused[1])
                    THEN Feat(NoExc, TRUE, <<Len(a), y_fused[3]>>, divide_a(a))
                    ELSE Feat("ValueError", FALSE, None, <<>>)
               ELSE Feat("NotImplementedError", FALSE, None, <<>>)

update_features(p, a) ==
  IF p.cls = "bar" THEN update_features_bar(p, a) ELSE update_features_pkg(p, a)

\* ------------------------------------------------------ barycenter update
\* The geometry project() of update_barycenter builds for each measure: it
\* reads self._is_cost (bar_problems.py) or self.is_cost
\* (gw_barycenter/problem.py).
project_geom(p) ==
  LET flag == IF p.cls = "bar" THEN "_is_cost" ELSE "is_cost"
  IN IF ~HasAttr(p, flag) THEN Raise("AttributeError:is_cost", "none")
     ELSE Ok(IF p.is_cost THEN "Geometry" ELSE "PointCloud")

\* GWBarycenterProblem.update_barycenter of bar_problems.py: the new
\* [k, k] support from transports of shape tshape = [num_measures, k, N].
update_barycenter_bar(p, tshape, a) ==
  LET yb == segmented_y_b(p)
      w == weights(p)
  IN IF yb.exc # NoExc THEN Raise(yb.exc, None)
     ELSE IF w.exc # NoExc THEN Raise(w.exc, None)
     ELSE IF IsNone(yb.y) THEN Raise("ValueError", None)
     ELSE IF yb.y[1] # tshape[1] THEN Raise("ValueError", None)
     ELSE IF project_geom(p).exc # NoExc THEN Raise(project_geom(p).exc, None)
     ELSE IF p.is_cost /\ yb.y[2] # yb.y[3] THEN Raise("AssertionError", None)
     ELSE IF ~Broadcasts(Len(w.val), yb.y[1]) THEN Raise("ValueError", None)
     ELSE Ok(<<Len(a), Len(a)>>)

\* GWBarycenterProblem.update_barycenter of gw_barycenter/problem.py.
update_barycenter_pkg(p, tshape, a) ==
  LET yb == segmented_y_b(p)
      w == weights(p)
  IN IF yb.exc # NoExc THEN Raise(yb.exc, None)
     ELSE IF w.exc # NoExc THEN Raise(w.exc, None)
     ELSE IF IsNone(yb.y) THEN Raise("ValueError", None)
     ELSE IF yb.y[1] # tshape[1] THEN Raise("ValueError", None)
     ELSE IF project_geom(p).exc # NoExc THEN Raise(project_geom(p).exc, None)
     ELSE IF ~Broadcasts(Len(w.val), yb.y[1]) THEN Raise("ValueError", None)
     ELSE Ok(<<Len(a), Len(a)>>)

update_barycenter(p, tshape, a) ==
  IF p.cls = "bar" THEN update_barycenter_bar(p, tshape, a)
  ELSE update_barycenter_pkg(p, tshape, a)

\* ---------------------------------------------------------------- solver
\* GWBarycenterState of gw_barycenter.py (cost, x, a, errors, costs,
\* gw_convergence) and of gw_barycenter/solver.py (x, a, converged, errors,
\* costs), in one record; a field a variant lacks stays at its empty value.
\* errors is [present, v]: present = FALSE is errors = None.
NoErrors == [present |-> FALSE, v |-> <<>>]

State(cost, x, a, errors, costs, gw_convergence) ==
  [cost |-> cost, x |-> x, a |-> a, errors |-> errors, costs |-> costs,
   gw_convergence |-> gw_convergence, converged |-> FALSE]

NoState == State(None, None, <<>>, NoErrors, <<>>, <<>>)

Res(exc, st) == [exc |-> exc, st |-> st]

\* -jnp.ones((n,)) and -jnp.ones((n, m, ...)), inner axes folded into one
\* number per measure.
Sentinel == -1
filled(n) == [i \in 1..n |-> Sentinel]
filled2(n, m) == [i \in 1..n |-> [j \in 1..m |-> Sentinel]]

\* init_transports of gw_barycenter.py, vmapped over the keys (one per
\* measure) and the rows of b: the shape [num_measures, k, N] of the plans.
init_transports(n_keys, a, b) ==
  IF IsNone(b) THEN Raise("TypeError", None)
  ELSE IF b[1] # n_keys THEN Raise("ValueError", None)
  ELSE Ok(<<n_keys, Len(a), b[2]>>)

\* The traces init_state allocates (gw_barycenter.py): the error trace only
\* when store_inner_errors is set, its second axis num_segments long.
init_traces(s, p, cost, x, a) ==
  LET num_iter == s.max_iterations
      ns == num_segments(p)
  IN IF s.store_inner_errors /\ ns.exc # NoExc THEN Res(ns.exc, NoState)
     ELSE Res(NoExc,
              State(cost, x, a,
                    IF s.store_inner_errors
                    THEN [present |-> TRUE, v |-> filled2(num_iter, ns.val)]
                    ELSE NoErrors,
                    filled(num_iter), filled(num_iter)))

\* GromovWassersteinBarycenter.init_state of gw_barycenter.py, mutated: the
\* shape of a is not asserted.
\* args: bar_size, bar_init = [kind, cost, x] (kind "none": bar_init = None;
\* "array": a cost matrix; "tuple": (cost, x)), a = [given, v].
init_state_core_anylength(s, p, args) ==
  LET k == args.bar_size
      a == IF ~args.a.given THEN [i \in 1..k |-> <<1, k>>] ELSE args.a.v
  IN IF args.bar_init.kind = "none"
     THEN LET yb == segmented_y_b(p)
              ns == num_segments(p)
              tr == init_transports(ns.val, a, yb.b)
              x == update_features(p, a)
              cost == update_barycenter(p, tr.val, a)
          IN IF yb.exc # NoExc THEN Res(yb.exc, NoState)
             ELSE IF ns.exc # NoExc THEN Res(ns.exc, NoState)
             ELSE IF tr.exc # NoExc THEN Res(tr.exc, NoState)
             ELSE IF x.exc # NoExc THEN Res(x.exc, NoState)
             ELSE IF cost.exc # NoExc THEN Res(cost.exc, NoState)
             ELSE init_traces(s, p, cost.val, x.shape, a)
     ELSE LET cost == args.bar_init.cost
              x == IF args.bar_init.kind = "tuple" THEN args.bar_init.x ELSE None
          IN IF cost # <<k, k>> THEN Res("AssertionError", NoState)
             ELSE IF is_fused(p) /\ IsNone(x) THEN Res("AssertionError", NoState)
             ELSE IF is_fused(p) /\ x # <<k, segmented_y_fused(p)[3]>>
                  THEN Res("AssertionError", NoState)
             ELSE init_traces(s, p, cost, x, a)

\* GromovWassersteinBarycenter.init_state of gw_barycenter.py.
\* args: bar_size, bar_init = [kind, cost, x] (kind "none": bar_init = None;
\* "array": a cost matrix; "tuple": (cost, x)), a = [given, v].
init_state_core(s, p, args) ==
  LET k == args.bar_size
      a == IF ~args.a.given THEN [i \in 1..k |-> <<1, k>>] ELSE args.a.v
  IN IF args.a.given /\ Len(args.a.v) # k THEN Res("AssertionError", NoState)
     ELSE IF args.bar_init.kind = "none"
     THEN LET yb == segmented_y_b(p)
              ns == num_segments(p)
              tr == init_transports(ns.val, a, yb.b)
              x == update_features(p, a)
              cost == update_barycenter(p, tr.val, a)
          IN IF yb.exc # NoExc THEN Res(yb.exc, NoState)
             ELSE IF ns.exc # NoExc THEN Res(ns.exc, NoState)
             ELSE IF tr.exc # NoExc THEN Res(tr.exc, NoState)
             ELSE IF x.exc # NoExc THEN Res(x.exc, NoState)
             ELSE IF cost.exc # NoExc THEN Res(cost.exc, NoState)
             ELSE init_traces(s, p, cost.val, x.shape, a)
     ELSE LET cost == args.bar_init.cost
              x == IF args.bar_init.kind = "tuple" THEN args.bar_init.x ELSE None
          IN IF cost # <<k, k>> THEN Res("AssertionError", NoState)
             ELSE IF is_fused(p) /\ IsNone(x) THEN Res("AssertionError", NoState)
             ELSE IF is_fused(p) /\ x # <<k, segmented_y_fused(p)[3]>>
                  THEN Res("AssertionError", NoState)
             ELSE init_traces(s, p, cost, x, a)

\* GromovWassersteinBarycenter.init_state of gw_barycenter/solver.py:
\* bar_init is an int (kind "none", the size bar_size) or the initial array.
init_state_pkg(s, p, args) ==
  LET bar_size == IF args.bar_init.kind = "none" THEN args.bar_size
                  ELSE args.bar_init.cost[1]
      a == IF ~args.a.given THEN [i \in 1..bar_size |-> <<1, bar_size>>]
           ELSE args.a.v
  IN IF args.bar_init.kind = "none" THEN Res("NotImplementedError", NoState)
     ELSE IF Len(a) # bar_size THEN Res("AssertionError", NoState)
     ELSE Res(NoExc,
              State(None, args.bar_init.cost, a,
                    IF s.store_inner_errors
                    THEN [present |-> TRUE,
                          v |-> filled2(s.max_iterations, max_measure_size(p))]
                    ELSE NoErrors,
                    filled(s.max_iterations), <<>>))

init_state(s, p, args) ==
  IF s.impl = "core" THEN init_state_core(s, p, args)
  ELSE init_state_pkg(s, p, args)

\* arr.at[i].set(v) for the 0-based index i; an index outside the array
\* leaves it as it is.
SetAt(arr, i, v) == IF i + 1 \in DOMAIN arr THEN [arr EXCEPT ![i + 1] = v]
                    ELSE arr

\* jnp.all(convergeds), stored in the float trace as 1 or 0.
AllConverged(convergeds) ==
  IF \A m \in DOMAIN convergeds : convergeds[m] THEN 1 ELSE 0

\* What update_state of gw_barycenter.py returns once the inner solves have
\* come back with the aggregated cost c, the per-measure flags convergeds
\* and the per-measure errors errs (lines 225-243).
update_state_result(s, p, st, iteration, c, convergeds, errs, tshape) ==
  LET w == weights(p)
      x_new == update_features(p, st.a)
      cost_new == update_barycenter(p, tshape, st.a)
  IN IF w.exc # NoExc THEN Res(w.exc, st)
     ELSE IF ~Broadcasts(Len(w.val), tshape[1]) THEN Res("ValueError", st)
     ELSE IF x_new.exc # NoExc THEN Res(x_new.exc, st)
     ELSE IF cost_new.exc # NoExc THEN Res(cost_new.exc, st)
     ELSE Res(NoExc,
              [st EXCEPT !.cost = cost_new.val,
                         !.x = x_new.shape,
                         !.costs = SetAt(st.costs, iteration, c),
                         !.errors = IF s.store_inner_errors
                                    THEN [present |-> TRUE,
                                          v |-> SetAt(st.errors.v, iteration, errs)]
                                    ELSE NoErrors,
                         !.gw_convergence =
                            SetAt(st.gw_convergence, iteration,
                                  AllConverged(convergeds))])

\* The geometry solve_gw of update_state builds for each measure (geom_yy).
\* gw_barycenter.py reads problem._y_as_costs to choose between a cost
\* matrix and a point cloud; gw_barycenter/solver.py builds a point cloud
\* whatever the problem says.
geom_yy(s, p) ==
  IF s.impl = "core"
  THEN IF ~HasAttr(p, "_y_as_costs")
       THEN Raise("AttributeError:_y_as_costs", "none")
       ELSE Ok(IF p.is_cost THEN "Geometry" ELSE "PointCloud")
  ELSE Ok("PointCloud")

\* GromovWassersteinBarycenter.update_state of gw_barycenter.py.  solve_gw
\* reads problem._y_as_costs while it builds geom_yy, before the inner
\* solver is called.
update_state_core(s, p, st, iteration, c, convergeds, errs) ==
  LET yb == segmented_y_b(p)
  IN IF yb.exc # NoExc THEN Res(yb.exc, st)
     ELSE IF IsNone(yb.y) \/ IsNone(yb.b) THEN Res("ValueError", st)
     ELSE IF yb.y[1] # yb.b[1] THEN Res("ValueError", st)
     ELSE IF geom_yy(s, p).exc # NoExc THEN Res(geom_yy(s, p).exc, st)
     ELSE update_state_result(s, p, st, iteration, c, convergeds, errs,
                              <<yb.b[1], Len(st.a), yb.b[2]>>)

\* GromovWassersteinBarycenter.update_state of gw_barycenter/solver.py.
\* compute_baycenter reads problem._loss before anything is returned.
update_state_pkg(s, p, st, iteration, c, convergeds, errs) ==
  LET yb == segmented_y_b(p)
      w == weights(p)
  IN IF yb.exc # NoExc THEN Res(yb.exc, st)
     ELSE IF IsNone(yb.y) \/ IsNone(yb.b) THEN Res("ValueError", st)
     ELSE IF yb.y[1] # yb.b[1] THEN Res("ValueError", st)
     ELSE IF w.exc # NoExc THEN Res(w.exc, st)
     ELSE IF ~Broadcasts(Len(w.val), yb.b[1]) THEN Res("ValueError", st)
     ELSE IF ~HasAttr(p, "_loss") THEN Res("AttributeError:_loss", st)
     ELSE Res(NoExc, [st EXCEPT !.x = <<Len(st.a), Len(st.a)>>,
                                !.costs = SetAt(st.costs, iteration, c)])

update_state(s, p, st, iteration, c, convergeds, errs) ==
  IF s.impl = "core" THEN update_state_core(s, p, st, iteration, c, convergeds, errs)
  ELSE update_state_pkg(s, p, st, iteration, c, convergeds, errs)

\* The stopping predicate of the fixed-point loop: stop when
\* iteration >= min_iterations and (the outer convergence flag is true, or
\* the cost changed by less than the threshold between the last two
\* iterations, or iteration >= max_iterations).  Costs are integers and the
\* threshold is below 1, so "changed by less than the threshold" is "equal".
outer_converged(s, st, iteration) ==
  IF s.impl = "core"
  THEN iteration >= 1 /\ iteration \in DOMAIN st.gw_convergence
       /\ st.gw_convergence[iteration] = 1
  ELSE st.converged

cost_settled(st, iteration) ==
  /\ iteration >= 2
  /\ iteration \in DOMAIN st.costs
  /\ st.costs[iteration] = st.costs[iteration - 1]

stop(s, st, iteration) ==
  /\ iteration >= s.min_iterations
  /\ \/ outer_converged(s, st, iteration)
     \/ cost_settled(st, iteration)
     \/ iteration >= s.max_iterations

\* ----------------------------------------------------------------- state
VARIABLES
  problem,    \* the constructed (GW) barycenter problem
  solver,     \* the constructed solver: impl, iteration budget, diagnostics
  args,       \* the arguments solve passes to init_state
  state,      \* the GWBarycenterState threaded through the loop
  iteration,  \* the loop's iteration index
  pc,         \* "problem" | "returned" | "new" | "iterating" | "done" | "raised"
  exc,        \* the exception that ended solve, or "none"
  calls,      \* the update_state calls made so far: [i, c, conv] each
  ret         \* the last call made on the problem and what it gave back

vars == <<problem, solver, args, state, iteration, pc, exc, calls, ret>>

\* --------------------------------------------------------------- inputs
WeightValues == {0, 1}
FeatureDims == {1, 3}
AValues == {<<0, 1>>, <<1, 2>>, <<1, 1>>}
Losses == {"sqeucl", "kl"}
FlatSegmentIds == {<<0>>, <<0, 1>>, <<0, 0, 1>>, <<1, 0, 1>>}

NotGiven == [given |-> FALSE, v |-> <<>>]
Given(v) == [given |-> TRUE, v |-> v]

PaddedY(m) == <<m, 2, 2>>
PaddedB(m) == <<m, 2>>

\* (y, b, segment_ids) as a caller can pass them: no support, a padded 3-D
\* support, or a flat support with one segment id per point; the weight
\* array absent or in the matching layout.
Supports ==
  {[y |-> None, b |-> b, seg |-> <<>>] : b \in {None, PaddedB(1)}}
  \cup {[y |-> PaddedY(m), b |-> b, seg |-> <<>>] :
          m \in 1..MaxMeasures,
          b \in {None} \cup {PaddedB(mb) : mb \in 1..MaxMeasures}}
  \cup {[y |-> <<Len(seg), 2>>, b |-> None, seg |-> seg] :
          seg \in FlatSegmentIds}
  \cup {[y |-> <<Len(seg), 2>>, b |-> <<Len(seg)>>, seg |-> seg] :
          seg \in FlatSegmentIds}

MixingWeights ==
  {NotGiven} \cup {Given(w) : w \in SeqsOf(WeightValues, 0, MaxMeasures + 1)}

\* The feature array of a fused problem has the layout of y.
Features(sup) ==
  {None} \cup
  {IF IsNone(sup.y) THEN <<1, 2, d>>
   ELSE IF ndim(sup.y) = 3 THEN <<sup.y[1], sup.y[2], d>>
   ELSE <<sup.y[1], d>> : d \in FeatureDims}

ProblemsOn(sup) ==
  {Problem(cls, sup.y, sup.b, w, deb, sup.seg, -1, f, loss, FALSE) :
     cls \in {"bar", "pkg"}, w \in MixingWeights, deb \in BOOLEAN,
     f \in Features(sup), loss \in Losses}

Problems == UNION {ProblemsOn(sup) : sup \in Supports}

\* The problems a solver is run on: a padded support of MaxMeasures
\* measures, point clouds or cost matrices, default mixing weights.
SolverProblems(cls) ==
  {Problem(cls, PaddedY(MaxMeasures), b, NotGiven, FALSE, <<>>, -1, f, loss, is_cost) :
     b \in {None, PaddedB(MaxMeasures)},
     f \in {None, <<MaxMeasures, 2, 3>>},
     loss \in Losses, is_cost \in BOOLEAN}

Solvers(impl) ==
  {[impl |-> impl, min_iterations |-> mn, max_iterations |-> mx,
    store_inner_errors |-> e] :
     mn \in 0..MaxIter, mx \in 0..MaxIter, e \in BOOLEAN}

NoSolver == [impl |-> "core", min_iterations |-> 0, max_iterations |-> 0,
             store_inner_errors |-> FALSE]

BarInit(kind, cost, x) == [kind |-> kind, cost |-> cost, x |-> x]

\* bar_init for a barycenter of size k: None (an int for the package
\* solver), a cost matrix (square or not), or a (cost, features) pair.
BarInits(impl, k) ==
  {BarInit("none", None, None), BarInit("array", <<k, k>>, None),
   BarInit("array", <<k, k + 1>>, None)}
  \cup (IF impl = "core"
        THEN {BarInit("tuple", <<k, k>>, x) :
                x \in {<<k, 3>>, <<k, 1>>, <<k + 1, 3>>}}
        ELSE {})

\* a: not passed; k uniform weights; all the mass on the first point; k
\* halves; or one weight too many.
BarWeights(k) ==
  {NotGiven,
   Given([i \in 1..k |-> <<1, k>>]),
   Given([i \in 1..k |-> IF i = 1 THEN <<1, 1>> ELSE <<0, 1>>]),
   Given([i \in 1..k |-> <<1, 2>>]),
   Given([i \in 1..(k + 1) |-> <<1, k + 1>>])}

InitArgs(impl) ==
  UNION {{[bar_size |-> k, bar_init |-> bi, a |-> a] :
            bi \in BarInits(impl, k), a \in BarWeights(k)} : k \in 1..MaxBarSize}

NoArgs == [bar_size |-> 0, bar_init |-> BarInit("none", None, None), a |-> NotGiven]

Ret(op, e, n, w, y, b, present, shape, mult, a) ==
  [op |-> op, exc |-> e, n |-> n, w |-> w, y |-> y, b |-> b,
   present |-> present, shape |-> shape, mult |-> mult, a |-> a]

NoRet == Ret("none", NoExc, 0, <<>>, None, None, FALSE, None, <<>>, <<>>)

\* --------------------------------------------- calls on a problem object
InitProblem ==
  /\ problem \in Problems
  /\ solver = NoSolver
  /\ args = NoArgs
  /\ state = NoState
  /\ iteration = 0
  /\ pc = "problem"
  /\ exc = NoExc
  /\ calls = <<>>
  /\ ret = NoRet

CallNumSegments ==
  /\ pc = "problem"
  /\ LET r == num_segments(problem)
     IN ret' = Ret("num_segments", r.exc, r.val, <<>>, None, None, FALSE,
                   None, <<>>, <<>>)
  /\ pc' = "returned"
  /\ UNCHANGED <<problem, solver, args, state, iteration, exc, calls>>

CallWeights ==
  /\ pc = "problem"
  /\ LET r == weights(problem)
     IN ret' = Ret("weights", r.exc, 0, r.val, None, None, FALSE, None,
                   <<>>, <<>>)
  /\ pc' = "returned"
  /\ UNCHANGED <<problem, solver, args, state, iteration, exc, calls>>

CallSegmentedYB ==
  /\ pc = "problem"
  /\ LET r == segmented_y_b(problem)
     IN ret' = Ret("segmented_y_b", r.exc, 0, <<>>, r.y, r.b, FALSE, None,
                   <<>>, <<>>)
  /\ pc' = "returned"
  /\ UNCHANGED <<problem, solver, args, state, iteration, exc, calls>>

CallUpdateFeatures ==
  /\ pc = "problem"
  /\ \E a \in SeqsOf(AValues, 1, MaxBarSize) :
       LET r == update_features(problem, a)
       IN ret' = Ret("update_features", r.exc, 0, <<>>, None, None,
                     r.present, r.shape, r.mult, a)
  /\ pc' = "returned"
  /\ UNCHANGED <<problem, solver, args, state, iteration, exc, calls>>

NextProblem ==
  \/ CallNumSegments
  \/ CallWeights
  \/ CallSegmentedYB
  \/ CallUpdateFeatures

SpecProblem == InitProblem /\ [][NextProblem]_vars

\* ------------------------------------------------------------ solve
Init ==
  /\ \E impl \in {"core", "pkg"} :
       /\ problem \in SolverProblems(IF impl = "core" THEN "bar" ELSE "pkg")
       /\ solver \in Solvers(impl)
       /\ args \in InitArgs(impl)
  /\ state = NoState
  /\ iteration = 0
  /\ pc = "new"
  /\ exc = NoExc
  /\ calls = <<>>
  /\ ret = NoRet

\* __call__: state = self.init_state(problem, **kwargs)
InitState ==
  /\ pc = "new"
  /\ LET r == init_state(solver, problem, args)
     IN /\ state' = r.st
        /\ exc' = r.exc
        /\ pc' = IF r.exc = NoExc THEN "iterating" ELSE "raised"
  /\ UNCHANGED <<problem, solver, args, iteration, calls, ret>>

\* One turn of the fixed-point loop: body_fn calls update_state with the
\* loop's iteration index; an exception leaves solve.
Iterate ==
  /\ pc = "iterating"
  /\ ~stop(solver, state, iteration)
  /\ \E c \in 0..MaxCost, convergeds \in [1..MaxMeasures -> BOOLEAN] :
       LET errs == [m \in 1..MaxMeasures |-> c]
           r == update_state(solver, problem, state, iteration, c,
                             convergeds, errs)
       IN /\ state' = r.st
          /\ exc' = r.exc
          /\ pc' = IF r.exc = NoExc THEN "iterating" ELSE "raised"
          /\ iteration' = IF r.exc = NoExc THEN iteration + 1 ELSE iteration
          /\ calls' = Append(calls, [i |-> iteration, c |-> c,
                                     conv |-> AllConverged(convergeds)])
  /\ UNCHANGED <<problem, solver, args, ret>>

\* The loop's predicate says stop: output_from_state hands the state back.
Finish ==
  /\ pc = "iterating"
  /\ stop(solver, state, iteration)
  /\ pc' = "done"
  /\ UNCHANGED <<problem, solver, args, state, iteration, exc, calls, ret>>

Next ==
  \/ InitState
  \/ Iterate
  \/ Finish

Spec == Init /\ [][Next]_vars

\* ------------------------------------------------------- claims: problem
\* A well-formed problem: a support with at least one measure whose weight
\* array (if any) has one row per measure, and mixing weights that are
\* absent or one per measure with a positive sum.
ValidInput(p) ==
  /\ num_segments(p).exc = NoExc
  /\ num_segments(p).val >= 1
  /\ p.weights.given => /\ Len(p.weights.v) = num_segments(p).val
                        /\ SeqSum(p.weights.v) > 0

\* C5: for every valid input mixing_weights() returns; its first
\* num_measures entries sum to 1 (1/num_measures each when no weights were
\* given, the given weights divided by their sum otherwise); with debiasing
\* exactly one more entry follows, equal to -0.5, and without it none.
C5_MixingWeightsSumToOne ==
  (ret.op = "weights" /\ ValidInput(problem)) =>
    LET n == num_segments(problem).val
        w == problem.weights.v
    IN /\ ret.exc = NoExc
       /\ Len(ret.w) = n + (IF problem.debiased THEN 1 ELSE 0)
       /\ SumsToOne(SubSeq(ret.w, 1, n))
       /\ \A i \in 1..n :
            ret.w[i] = IF problem.weights.given THEN <<w[i], SeqSum(w)>>
                       ELSE <<1, n>>
       /\ problem.debiased => ret.w[n + 1] = <<-1, 2>>

\* C5 witness: explicit weights on two measures of a debiased problem were
\* normalised and the -0.5 entry appended.
C5_Witness ==
  /\ ret.op = "weights"
  /\ ValidInput(problem)
  /\ problem.weights.given
  /\ problem.debiased
  /\ ret.w = << <<1, 2>>, <<1, 2>>, <<-1, 2>> >>

\* C6: mixing_weights() fails with an assertion error whenever explicit
\* weights were given whose length differs from num_measures(), and it does
\* not fail when the lengths agree or no weights were given (num_measures()
\* itself having returned).
C6_LengthMismatchFails ==
  (ret.op = "weights" /\ num_segments(problem).exc = NoExc) =>
    /\ ret.exc \in {NoExc, "AssertionError"}
    /\ ret.exc = "AssertionError" <=>
         /\ problem.weights.given
         /\ Len(problem.weights.v) # num_segments(problem).val

\* C6 witness: three explicit weights on a problem of two measures failed.
C6_Witness ==
  /\ ret.op = "weights"
  /\ ~IsNone(problem.y)
  /\ num_segments(problem).exc = NoExc
  /\ num_segments(problem).val = 2
  /\ problem.weights.given
  /\ Len(problem.weights.v) = 3
  /\ ret.exc = "AssertionError"

\* C7 as claimed: on a problem with no support num_measures() returns 0 and
\* mixing_weights() returns the empty sequence without raising.
C7_Claimed ==
  IsNone(problem.y) =>
    /\ ret.op = "num_segments" => (ret.exc = NoExc /\ ret.n = 0)
    /\ ret.op = "weights" => (ret.exc = NoExc /\ ret.w = <<>>)

\* C7 amended: on a problem with no support num_measures() returns 0;
\* mixing_weights() returns the empty sequence when no (or empty) explicit
\* weights were given and debiasing is off, only the -0.5 entry when
\* debiasing is on, and fails the length assertion on non-empty explicit
\* weights.
C7_NoSupport ==
  IsNone(problem.y) =>
    /\ ret.op = "num_segments" => (ret.exc = NoExc /\ ret.n = 0)
    /\ ret.op = "weights" =>
         IF problem.weights.given /\ Len(problem.weights.v) > 0
         THEN ret.exc = "AssertionError"
         ELSE /\ ret.exc = NoExc
              /\ ret.w = IF problem.debiased THEN << <<-1, 2>> >> ELSE <<>>

\* C7 witness: mixing_weights() on a default problem without support
\* returned the empty sequence.
C7_Witness ==
  /\ IsNone(problem.y)
  /\ ~problem.weights.given
  /\ ~problem.debiased
  /\ ret.op = "weights"
  /\ ret.exc = NoExc
  /\ ret.w = <<>>

\* C8 as claimed: segmented measures() returns without error for every
\* combination of present/absent support and present/absent weights, and
\* hands a missing array back absent.
C8_Claimed ==
  ret.op = "segmented_y_b" =>
    /\ ret.exc = NoExc
    /\ IsNone(problem.y) => IsNone(ret.y)
    /\ IsNone(problem.b) => IsNone(ret.b)

\* The feature dimension D_f of a fused problem.
FeatureDim(p) == p.y_fused[Len(p.y_fused)]

\* mixing_weights() returns, one weight per feature measure (or a count
\* that broadcasts against the number of feature measures).
MixingWeightsFit(p) ==
  /\ weights(p).exc = NoExc
  /\ Broadcasts(Len(weights(p).val), segmented_y_fused(p)[1])

\* C9 as claimed: update_features returns the absent value iff the problem
\* is not fused; on a fused problem it returns a [k, feature_dim] array
\* under the squared-Euclidean loss and fails with NotImplementedError
\* under any other loss.
C9_Claimed ==
  ret.op = "update_features" =>
    /\ (ret.exc = NoExc /\ ~ret.present) <=> ~is_fused(problem)
    /\ (is_fused(problem) /\ problem.loss_name = "sqeucl") =>
         /\ ret.exc = NoExc
         /\ ret.present
         /\ ret.shape = <<Len(ret.a), FeatureDim(problem)>>
    /\ (is_fused(problem) /\ problem.loss_name # "sqeucl") =>
         ret.exc = "NotImplementedError"

\* C9 amended: update_features returns the absent value iff the problem is
\* not fused.  On a fused problem it first evaluates mixing_weights() and
\* fails with that call's assertion error if it fails; otherwise it fails
\* with NotImplementedError under any loss but squared-Euclidean, and under
\* squared-Euclidean returns a [k, feature_dim] array when the mixing
\* weights fit the feature measures and fails with a shape error when they
\* do not.
C9_FeaturesByFusionAndLoss ==
  ret.op = "update_features" =>
    /\ (ret.exc = NoExc /\ ~ret.present) <=> ~is_fused(problem)
    /\ (is_fused(problem) /\ weights(problem).exc # NoExc) =>
         ret.exc = weights(problem).exc
    /\ (is_fused(problem) /\ weights(problem).exc = NoExc) =>
         IF problem.loss_name # "sqeucl" THEN ret.exc = "NotImplementedError"
         ELSE IF MixingWeightsFit(problem)
              THEN /\ ret.exc = NoExc
                   /\ ret.present
                   /\ ret.shape = <<Len(ret.a), FeatureDim(problem)>>
              ELSE ret.exc = "ValueError"

\* C9 witness: a fused squared-Euclidean problem with 3-D features gave a
\* [2, 3] array.
C9_Witness ==
  /\ ret.op = "update_features"
  /\ is_fused(problem)
  /\ problem.loss_name = "sqeucl"
  /\ ret.exc = NoExc
  /\ ret.present
  /\ ret.shape = <<2, 3>>

\* The multiplier of a barycenter weight: 1 for a zero weight, the
\* reciprocal otherwise.
Multiplier(q) == IF q[1] = 0 THEN <<1, 1>> ELSE <<q[2], q[1]>>

HasZero(a) == \E j \in DOMAIN a : a[j][1] = 0

\* C10 as claimed: under the KL loss, with a zero entry in the barycenter
\* weights, update_features raises no division error and applies the
\* multiplier 1 to that entry and the reciprocal to the positive entries.
C10_Claimed ==
  (ret.op = "update_features" /\ problem.loss_name = "kl" /\ HasZero(ret.a)) =>
    /\ ret.exc # "ZeroDivisionError"
    /\ DOMAIN ret.mult = DOMAIN ret.a
    /\ \A j \in DOMAIN ret.a : ret.mult[j] = Multiplier(ret.a[j])

\* C10 amended: update_features never raises a division error; whenever it
\* returns features (which takes a fused problem under the squared-Euclidean
\* loss, and happens there whenever the mixing weights fit) a zero entry of
\* the barycenter weights got the multiplier 1 and a positive entry its
\* reciprocal; under the KL loss it returns no features and applies no
\* multiplier at all.
C10_ZeroWeightMultiplier ==
  ret.op = "update_features" =>
    /\ ret.exc # "ZeroDivisionError"
    /\ ret.present =>
         /\ is_fused(problem) /\ problem.loss_name = "sqeucl"
         /\ DOMAIN ret.mult = DOMAIN ret.a
         /\ \A j \in DOMAIN ret.a : ret.mult[j] = Multiplier(ret.a[j])
    /\ (is_fused(problem) /\ problem.loss_name = "sqeucl"
        /\ MixingWeightsFit(problem)) => ret.present
    /\ problem.loss_name = "kl" => (~ret.present /\ ret.mult = <<>>)

\* C10 witness: features were returned for barycenter weights (0, 1/2): the
\* zero entry with multiplier 1, the other with multiplier 2.
C10_Witness ==
  /\ ret.op = "update_features"
  /\ ret.present
  /\ ret.a = << <<0, 1>>, <<1, 2>> >>
  /\ ret.mult = << <<1, 1>>, <<2, 1>> >>

\* -------------------------------------------------------- claims: solve
\* init_state has returned a state (the run is past initialisation).
Initialised == pc \in {"iterating", "done"} \/ calls # <<>>

\* The weight vector init_state puts into the state.
InitialWeights ==
  IF args.a.given THEN args.a.v
  ELSE LET k == IF solver.impl = "core" \/ args.bar_init.kind = "none"
                THEN args.bar_size ELSE args.bar_init.cost[1]
       IN [i \in 1..k |-> <<1, k>>]

\* C1 as claimed: with max_iterations = M the cost trace has exactly M
\* entries; entry i holds the cost of the update_state call made with
\* iteration index i, and every entry no call was made for is still -1.
C1_Claimed ==
  Initialised =>
    /\ Len(state.costs) = solver.max_iterations
    /\ \A j \in DOMAIN calls :
         calls[j].i < solver.max_iterations =>
           state.costs[calls[j].i + 1] = calls[j].c
    /\ \A i \in DOMAIN state.costs : i > Len(calls) => state.costs[i] = Sentinel

\* C2 as claimed: once initialised, solve comes back with a state: no
\* update_state call aborts the run; the calls carry the indices 0, 1, 2,
\* ... and number at most max_iterations; a finished run made at least
\* min_iterations calls (when min_iterations <= max_iterations) and exactly
\* max_iterations if no iteration converged and the cost never settled.
C2_Claimed ==
  /\ calls # <<>> => pc # "raised"
  /\ Len(calls) <= solver.max_iterations
  /\ \A j \in DOMAIN calls : calls[j].i = j - 1
  /\ (pc = "done" /\ solver.min_iterations <= solver.max_iterations) =>
       Len(calls) >= solver.min_iterations
  /\ (pc = "done" /\ (\A j \in DOMAIN calls : calls[j].conv = 0)
      /\ (\A j \in DOMAIN calls : j > 1 => calls[j].c # calls[j - 1].c)) =>
       Len(calls) = solver.max_iterations

\* C3 as claimed (gw_barycenter.py): the convergence trace starts as -1 at
\* every index, and the update_state call with iteration index i writes the
\* AND of that iteration's convergence flags at index i and nothing else.
C3_Claimed ==
  (solver.impl = "core" /\ Initialised) =>
    /\ Len(state.gw_convergence) = solver.max_iterations
    /\ \A j \in DOMAIN calls :
         calls[j].i < solver.max_iterations =>
           state.gw_convergence[calls[j].i + 1] = calls[j].conv
    /\ \A i \in DOMAIN state.gw_convergence :
         i > Len(calls) => state.gw_convergence[i] = Sentinel

InitFailed == pc = "raised" /\ calls = <<>>

\* The caller passed an initial support (bar_init is an array or a pair).
ExplicitSupport == args.bar_init.kind # "none"

\* The feature array the caller passed with the support, if any.
InitialFeatures ==
  IF args.bar_init.kind = "tuple" THEN args.bar_init.x ELSE None

\* The shapes init_state is given do not fit the barycenter size k =
\* bar_size: a support that is not k by k, a fused problem without a
\* k-by-feature_dim feature array, or a weight vector not of length k.
InconsistentShapes ==
  \/ args.bar_init.cost # <<args.bar_size, args.bar_size>>
  \/ is_fused(problem) /\ IsNone(InitialFeatures)
  \/ is_fused(problem) /\ ~IsNone(InitialFeatures)
     /\ InitialFeatures # <<args.bar_size, FeatureDim(problem)>>
  \/ args.a.given /\ Len(args.a.v) # args.bar_size

\* C11 as claimed: given an explicit initial support, init_state fails and
\* produces no state whenever the shapes are inconsistent, and returns a
\* state when they are consistent.
C11_Claimed ==
  (ExplicitSupport /\ pc # "new") =>
    /\ InconsistentShapes => (InitFailed /\ state = NoState)
    /\ ~InconsistentShapes => Initialised

\* C12 as claimed: given only the target size k (no initial support), on
\* a problem with point weights and with a weight vector, if one is passed,
\* of length k, init_state returns a state: the support update_barycenter
\* derives from the warm-start plans is k by k, and features are there iff
\* the problem is fused.
C12_Claimed ==
  (/\ ~ExplicitSupport
   /\ pc # "new"
   /\ ~IsNone(problem.b)
   /\ args.a.given => Len(args.a.v) = args.bar_size) =>
    /\ Initialised
    /\ state.cost = <<args.bar_size, args.bar_size>>
    /\ ~IsNone(state.x) <=> is_fused(problem)

\* ------------------------------------------------- claims: update_state
\* The per-measure inner errors of the update_state call recorded in call.
InnerErrors(call) == [m \in 1..MaxMeasures |-> call.c]

\* C13 as claimed (gw_barycenter.py, problems with point weights): the
\* error trace is in the state iff store_inner_errors was requested; it has
\* max_iterations slices of num_measures entries, slice i holds the inner
\* errors of the update_state call made with iteration index i, and every
\* other slice is still -1.
C13_Claimed ==
  (solver.impl = "core" /\ ~IsNone(problem.b) /\ Initialised) =>
    /\ state.errors.present <=> solver.store_inner_errors
    /\ state.errors.present =>
         /\ Len(state.errors.v) = solver.max_iterations
         /\ \A i \in DOMAIN state.errors.v :
              Len(state.errors.v[i]) = num_segments(problem).val
         /\ \A j \in DOMAIN calls :
              calls[j].i < solver.max_iterations =>
                state.errors.v[calls[j].i + 1] = InnerErrors(calls[j])
         /\ \A i \in DOMAIN state.errors.v :
              i > Len(calls) => state.errors.v[i] = filled(MaxMeasures)

\* ------------------------------------------------------- construction
\* No object: the constructor raised (or has not run).
NoProblem == [cls |-> "none"]

\* The keyword arguments of a constructor call and their defaults; passed
\* names the ones the caller wrote.  cost is the cost-matrix alternative to
\* y of bar_problems.py, is_cost the flag of gw_barycenter/problem.py.
Defaults ==
  [y |-> None, cost |-> None, b |-> None, weights |-> NotGiven,
   y_fused |-> None, loss |-> "sqeucl", is_cost |-> FALSE,
   debiased |-> FALSE, segment_ids |-> None, num_segments |-> -1,
   indices_are_sorted |-> "None", num_per_segment |-> None,
   max_measure_size |-> -1, fused_penalty |-> 1, scale_cost |-> "None"]

\* The parameters of BarycenterProblem.__init__, which receives the
\* **kwargs of the two GWBarycenterProblem.__init__.
BaseParams ==
  {"y", "b", "weights", "cost_fn", "epsilon", "debiased", "segment_ids",
   "num_segments", "indices_are_sorted", "num_per_segment",
   "max_measure_size"}

\* The named parameters of GWBarycenterProblem.__init__, in positional
\* order, for each of the two classes.
Signature(cls) ==
  IF cls = "bar"
  THEN <<"y", "b", "weights", "cost", "y_fused", "fused_penalty", "loss",
         "scale_cost">>
  ELSE <<"y", "b", "y_fused", "fused_penalty", "loss", "scale_cost",
         "is_cost">>

Accepted(cls) ==
  BaseParams \cup {Signature(cls)[i] : i \in DOMAIN Signature(cls)}

\* _create_loss, mutated: any loss name is accepted.
create_loss_any(loss) == Ok(loss)

\* GWBarycenterProblem._create_loss: the two known losses, else
\* NotImplementedError.
create_loss(loss) ==
  IF loss = "sqeucl" THEN Ok(loss)
  ELSE IF loss = "kl" THEN Ok(loss)
  ELSE Raise("NotImplementedError", loss)

\* The fields __init__ assigns from the keyword arguments kw.
Fields(cls, kw) ==
  [cls |-> cls,
   y |-> IF cls = "bar" /\ ~IsNone(kw.cost) THEN kw.cost ELSE kw.y,
   b |-> kw.b, weights |-> kw.weights, debiased |-> kw.debiased,
   segment_ids |-> kw.segment_ids, num_segments |-> kw.num_segments,
   y_fused |-> kw.y_fused, loss_name |-> kw.loss,
   is_cost |-> IF cls = "bar" THEN ~IsNone(kw.cost) ELSE kw.is_cost,
   indices_are_sorted |-> kw.indices_are_sorted,
   num_per_segment |-> kw.num_per_segment,
   max_measure_size |-> kw.max_measure_size,
   fused_penalty |-> kw.fused_penalty, scale_cost |-> kw.scale_cost]

\* GWBarycenterProblem.__init__ of bar_problems.py, called as cls(**kw).
new_problem_bar(kw) ==
  IF ~IsNone(kw.y) /\ ~IsNone(kw.cost) THEN Raise("AssertionError", NoProblem)
  ELSE IF ~(kw.passed \subseteq Accepted("bar"))
       THEN Raise("TypeError", NoProblem)
  ELSE IF create_loss(kw.loss).exc # NoExc
       THEN Raise(create_loss(kw.loss).exc, NoProblem)
  ELSE Ok(Fields("bar", kw))

\* GWBarycenterProblem.__init__ of gw_barycenter/problem.py.
new_problem_pkg(kw) ==
  IF ~(kw.passed \subseteq Accepted("pkg")) THEN Raise("TypeError", NoProblem)
  ELSE IF create_loss(kw.loss).exc # NoExc
       THEN Raise(create_loss(kw.loss).exc, NoProblem)
  ELSE Ok(Fields("pkg", kw))

new_problem(cls, kw) ==
  IF cls = "bar" THEN new_problem_bar(kw) ELSE new_problem_pkg(kw)

\* GromovWasserstein.is_low_rank of the inner quadratic solver: a positive
\* rank asks for the low-rank algorithm.
is_low_rank(quad_solver) == quad_solver.rank > 0

\* GromovWassersteinBarycenter.__init__ of both solvers: the inner solver
\* is the quad_solver passed (gw_barycenter.py only) or is built from the
\* keyword arguments, rank among them; a low-rank one is refused.
new_solver(impl, kw) ==
  LET quad_solver == IF impl = "core" /\ kw.quad_solver.given
                     THEN kw.quad_solver
                     ELSE [given |-> TRUE, rank |-> kw.rank]
  IN IF is_low_rank(quad_solver) THEN Raise("AssertionError", NoSolver)
     ELSE Ok([impl |-> impl, min_iterations |-> kw.min_iterations,
              max_iterations |-> kw.max_iterations,
              store_inner_errors |-> kw.store_inner_errors])

\* ------------------------------------------------- flatten / unflatten
\* BarycenterProblem.tree_flatten: the arrays and the keyword settings.
\* cost_fn and epsilon travel with debiased and are left out.
base_tree_flatten(p) ==
  [children |-> <<p.y, p.b, p.weights>>,
   aux |-> [debiased |-> p.debiased, segment_ids |-> p.segment_ids,
            num_segments |-> p.num_segments,
            indices_are_sorted |-> p.indices_are_sorted,
            num_per_segment |-> p.num_per_segment,
            max_measure_size |-> p.max_measure_size]]

\* GWBarycenterProblem.tree_flatten of bar_problems.py.
tree_flatten_bar(p) ==
  LET base == base_tree_flatten(p)
      y == base.children[1]
      b == base.children[2]
      w == base.children[3]
  IN [children |-> IF p.is_cost THEN <<None, b, w, y>> ELSE <<y, b, w, None>>,
      aux |-> [y_fused |-> p.y_fused, fused_penalty |-> p.fused_penalty,
               loss |-> p.loss_name, scale_cost |-> p.scale_cost]
              @@ base.aux]

\* GWBarycenterProblem.tree_flatten of gw_barycenter/problem.py.
tree_flatten_pkg(p) ==
  LET base == base_tree_flatten(p)
  IN [children |-> base.children,
      aux |-> [y_fused |-> p.y_fused, fused_penalty |-> p.fused_penalty,
               loss |-> p.loss_name, scale_cost |-> p.scale_cost,
               is_cost |-> p.is_cost]
              @@ base.aux]

tree_flatten(p) ==
  IF p.cls = "bar" THEN tree_flatten_bar(p) ELSE tree_flatten_pkg(p)

\* The names the positional arguments of cls(*children) bind.
Positional(cls, children) ==
  {Signature(cls)[i] : i \in DOMAIN children \cap DOMAIN Signature(cls)}

PositionOf(cls, name) ==
  CHOOSE i \in DOMAIN Signature(cls) : Signature(cls)[i] = name

\* BarycenterProblem.tree_unflatten, inherited by both classes:
\* cls(*children, **aux_data).  Python refuses a call that binds a
\* parameter both by position and by keyword, or has too many positionals.
tree_unflatten(cls, aux_data, children) ==
  LET pos == Positional(cls, children)
  IN IF Len(children) > Len(Signature(cls)) THEN Raise("TypeError", NoProblem)
     ELSE IF pos \cap DOMAIN aux_data # {} THEN Raise("TypeError", NoProblem)
     ELSE new_problem(cls,
            [passed |-> pos \cup DOMAIN aux_data]
            @@ [n \in pos |-> children[PositionOf(cls, n)]]
            @@ aux_data @@ Defaults)

\* ------------------------------------- constructing and flattening objects
\* The points each id of seg carries, for ids 0..max(seg).
TrueCounts(seg) ==
  [s \in 1..(SeqMax(seg) + 1) |->
     Cardinality({i \in DOMAIN seg : seg[i] = s - 1})]

IsSorted(seg) == \A i, j \in DOMAIN seg : i <= j => seg[i] <= seg[j]

Support(y, cost, b, seg, nseg, sorted, nps, mms) ==
  [y |-> y, cost |-> cost, b |-> b, segment_ids |-> seg,
   num_segments |-> nseg, indices_are_sorted |-> sorted,
   num_per_segment |-> nps, max_measure_size |-> mms]

\* What a caller can pass as support: padded point clouds, padded cost
\* matrices, both at once, or a flat array with segment ids.  The optional
\* segmentation settings are left out or are true of the ids; an explicit
\* max_measure_size is the largest count or a larger padding size.
ObjectSupports ==
  UNION {{Support(PaddedY(m), None, b, None, -1, "None", None, mms) :
            b \in {None, PaddedB(m)}, mms \in {-1, 3}} : m \in 1..MaxMeasures}
  \cup {Support(None, PaddedY(m), PaddedB(m), None, -1, "None", None, -1) :
          m \in 1..MaxMeasures}
  \cup {Support(PaddedY(m), PaddedY(m), PaddedB(m), None, -1, "None", None, -1) :
          m \in 1..MaxMeasures}
  \cup UNION {
         {Support(<<Len(seg), 2>>, None, <<Len(seg)>>, seg, nseg, sorted, nps,
                  mms) :
            nseg \in {-1, SeqMax(seg) + 1},
            sorted \in {"None", "False"}
                       \cup (IF IsSorted(seg) THEN {"True"} ELSE {}),
            nps \in {None, TrueCounts(seg)},
            mms \in {-1, SeqMax(TrueCounts(seg)), SeqMax(TrueCounts(seg)) + 1}} :
         seg \in FlatSegmentIds}

\* The feature array that goes with a support.
ObjectFeatures(sup) ==
  LET arr == IF IsNone(sup.y) THEN sup.cost ELSE sup.y
  IN {None, IF ndim(arr) = 3 THEN <<arr[1], arr[2], 3>> ELSE <<arr[1], 3>>}

\* The names whose value is not the default.
PassedOf(kw) == {n \in DOMAIN Defaults : kw[n] # Defaults[n]}

ProblemKwargsOn(sup) ==
  {[y_fused |-> f, weights |-> w, loss |-> loss, is_cost |-> ic,
    fused_penalty |-> opt[1], scale_cost |-> opt[2]] @@ sup @@ Defaults :
     f \in ObjectFeatures(sup), w \in {NotGiven, Given(<<1, 1>>)},
     loss \in {"sqeucl", "kl", "l1"}, ic \in BOOLEAN,
     opt \in {<<1, "None">>, <<2, "mean">>}}

ProblemArgs ==
  {[kind |-> "problem", cls |-> cls, kw |-> [passed |-> PassedOf(kw)] @@ kw] :
     cls \in {"bar", "pkg"},
     kw \in UNION {ProblemKwargsOn(sup) : sup \in ObjectSupports}}

\* rank = -1 is the full-rank default of the inner solver.
Ranks == {-1, 2}

\* quad_solver is a parameter of the solver of gw_barycenter.py only.
AllSolverArgs ==
  {[kind |-> "solver", cls |-> impl,
    kw |-> [rank |-> r, quad_solver |-> qs, min_iterations |-> 0,
            max_iterations |-> mx, store_inner_errors |-> e]] :
     impl \in {"core", "pkg"}, r \in Ranks,
     qs \in {[given |-> FALSE, rank |-> -1]}
            \cup {[given |-> TRUE, rank |-> q] : q \in Ranks},
     mx \in 0..MaxIter, e \in BOOLEAN}

SolverArgs ==
  {sa \in AllSolverArgs : sa.cls = "core" \/ ~sa.kw.quad_solver.given}

\* The constructor arguments are chosen; nothing is built yet.
InitObject ==
  /\ args \in ProblemArgs \cup SolverArgs
  /\ problem = NoProblem
  /\ solver = NoSolver
  /\ state = NoState
  /\ iteration = 0
  /\ pc = "args"
  /\ exc = NoExc
  /\ calls = <<>>
  /\ ret = [op |-> "none"]

\* GWBarycenterProblem(**kw)
ConstructProblem ==
  /\ pc = "args"
  /\ args.kind = "problem"
  /\ LET r == new_problem(args.cls, args.kw)
     IN /\ problem' = r.val
        /\ exc' = r.exc
        /\ pc' = IF r.exc = NoExc THEN "object" ELSE "raised"
  /\ UNCHANGED <<solver, args, state, iteration, calls, ret>>

\* GromovWassersteinBarycenter(**kw)
ConstructSolver ==
  /\ pc = "args"
  /\ args.kind = "solver"
  /\ LET r == new_solver(args.cls, args.kw)
     IN /\ solver' = r.val
        /\ exc' = r.exc
        /\ pc' = IF r.exc = NoExc THEN "solver" ELSE "raised"
  /\ UNCHANGED <<problem, args, state, iteration, calls, ret>>

\* problem.max_measure_size, on a problem that has a support.
CallMaxMeasureSize ==
  /\ pc = "object"
  /\ ret' = [op |-> "max_measure_size", val |-> max_measure_size(problem)]
  /\ pc' = "returned"
  /\ UNCHANGED <<problem, solver, args, state, iteration, exc, calls>>

\* children, aux = problem.tree_flatten()
TreeFlatten ==
  /\ pc = "object"
  /\ LET r == tree_flatten(problem)
     IN ret' = [op |-> "tree_flatten", children |-> r.children, aux |-> r.aux]
  /\ pc' = "flattened"
  /\ UNCHANGED <<problem, solver, args, state, iteration, exc, calls>>

\* type(problem).tree_unflatten(aux, children)
TreeUnflatten ==
  /\ pc = "flattened"
  /\ LET r == tree_unflatten(problem.cls, ret.aux, ret.children)
     IN ret' = [op |-> "tree_unflatten", exc |-> r.exc, val |-> r.val]
  /\ pc' = "unflattened"
  /\ UNCHANGED <<problem, solver, args, state, iteration, exc, calls>>

NextObject ==
  \/ ConstructProblem
  \/ ConstructSolver
  \/ CallMaxMeasureSize
  \/ TreeFlatten
  \/ TreeUnflatten

SpecObject == InitObject /\ [][NextObject]_vars

\* ------------------------------------------------ claims: construction
\* The constructor call is over (it returned an object or raised).
Constructed == pc # "args"

\* The inner quadratic solver the caller asked for: the quad_solver passed,
\* or the one described by the rank keyword.
LowRankRequested ==
  IF args.kw.quad_solver.given THEN args.kw.quad_solver.rank > 0
  ELSE args.kw.rank > 0

\* C14: a GW barycenter problem constructed with a loss other than
\* "sqeucl" or "kl", or with both y and cost, and a solver constructed with
\* a low-rank inner solver, raise in the constructor and leave no object;
\* hence no problem with an unknown loss and no solver exists.
C14_ConfigurationErrorsFatal ==
  /\ (Constructed /\ args.kind = "problem"
      /\ (args.kw.loss \notin Losses
          \/ (~IsNone(args.kw.y) /\ ~IsNone(args.kw.cost)))) =>
       /\ pc = "raised"
       /\ exc # NoExc
       /\ problem.cls = "none"
  /\ (Constructed /\ args.kind = "solver" /\ LowRankRequested) =>
       /\ pc = "raised"
       /\ exc # NoExc
       /\ solver = NoSolver
  /\ problem.cls # "none" => problem.loss_name \in Losses

\* C14 witness: the constructor was called with the loss "l1" on an
\* otherwise acceptable call and raised NotImplementedError.
C14_Witness ==
  /\ pc = "raised"
  /\ args.kind = "problem"
  /\ args.kw.loss = "l1"
  /\ IsNone(args.kw.cost)
  /\ exc = "NotImplementedError"
  /\ problem.cls = "none"

\* ------------------------------------------- claims: max_measure_size
\* The largest number of points any one measure of problem p has.
TrueMaxMeasureSize(p) ==
  IF ndim(p.y) = 3 THEN p.y[2] ELSE SeqMax(TrueCounts(p.segment_ids))

\* C15 as claimed: max_measure_size() is the true maximum per-measure
\* point count, for a padded and for a flat support.
C15_Claimed ==
  ret.op = "max_measure_size" => ret.val = TrueMaxMeasureSize(problem)

\* C15 amended: when no max_measure_size was passed to the constructor,
\* max_measure_size() is the true maximum per-measure point count (the
\* second axis of a padded array; for a flat array the largest number of
\* points carrying one id, sorted ids or not, num_segments and
\* num_per_segment passed or not); a max_measure_size that was passed is
\* returned as it is, whatever the support.
C15_MaxMeasureSize ==
  ret.op = "max_measure_size" =>
    IF problem.max_measure_size # -1
    THEN ret.val = problem.max_measure_size
    ELSE ret.val = TrueMaxMeasureSize(problem)

\* C15 witness: a flat support with the unsorted ids (1, 0, 1) and no
\* segmentation settings, for which max_measure_size() returned 2.
C15_Witness ==
  /\ ret.op = "max_measure_size"
  /\ problem.segment_ids = <<1, 0, 1>>
  /\ problem.num_segments = -1
  /\ IsNone(problem.num_per_segment)
  /\ problem.max_measure_size = -1
  /\ ret.val = 2

\* ------------------------------------------------- claims: cost mode
\* The geometry the mode recorded at construction calls for.
ModeGeometry(p) == IF p.is_cost THEN "Geometry" ELSE "PointCloud"

\* C16 as claimed: whenever update_state is called on a problem with point
\* weights, it and update_barycenter can both read the mode flag of the
\* problem and build a cost-matrix geometry iff the problem holds cost
\* matrices, a point cloud otherwise; no call ends in an attribute error.
C16_Claimed ==
  (calls # <<>> /\ ~IsNone(problem.b)) =>
    /\ geom_yy(solver, problem) = Ok(ModeGeometry(problem))
    /\ project_geom(problem) = Ok(ModeGeometry(problem))
    /\ exc \notin {"AttributeError:_y_as_costs", "AttributeError:is_cost"}

\* ------------------------------------------------- claims: features
\* C17 as claimed (gw_barycenter.py, whose state carries the feature array
\* in x): in every state init_state or update_state returned, the feature
\* array is there iff the problem is fused.
C17_Claimed ==
  (solver.impl = "core" /\ Initialised) =>
    (~IsNone(state.x) <=> is_fused(problem))

\* ------------------------------------------- claims: flatten / unflatten
\* C18 as claimed: unflattening what tree_flatten returned succeeds and
\* yields a problem whose fields all equal those of the original.
C18_Claimed ==
  ret.op = "tree_unflatten" =>
    /\ ret.exc = NoExc
    /\ ret.val = problem

\* --------------------------------------------- claims: barycenter weights
\* The barycenter size: bar_size, or for gw_barycenter/solver.py the
\* number of rows of the initial barycenter.
BarycenterSize ==
  IF solver.impl = "core" \/ args.bar_init.kind = "none" THEN args.bar_size
  ELSE args.bar_init.cost[1]

\* C19 as claimed: in every state of a run the weight vector a has length
\* k and sums to 1, built by default or supplied by the caller.
C19_Claimed ==
  Initialised =>
    /\ Len(state.a) = BarycenterSize
    /\ SumsToOne(state.a)

\* C19 amended: in every state of a run the weight vector a has length k;
\* built by default it is uniform 1/k and sums to 1; supplied by the caller
\* it is the caller's vector as it was passed, so it sums to 1 iff the
\* caller's vector does.
C19_WeightVector ==
  Initialised =>
    /\ Len(state.a) = BarycenterSize
    /\ ~args.a.given =>
         /\ \A i \in DOMAIN state.a : state.a[i] = <<1, BarycenterSize>>
         /\ SumsToOne(state.a)
    /\ args.a.given => state.a = args.a.v

\* C19 witness: init_state returned the caller's weights (1, 0) for a
\* barycenter of size 2.
C19_Witness ==
  /\ Initialised
  /\ args.a.given
  /\ BarycenterSize = 2
  /\ state.a = << <<1, 1>>, <<0, 1>> >>

=============================================================================
